---------------------------- MODULE Spec2Model ----------------------------
(***************************************************************************)
(* The advance-runner of rollups-node (offchain/advance-runner/src/        *)
(* runner.rs): Runner::start, setup, consume_next, handle_advance and      *)
(* handle_finish, driven against the three collaborators the runner calls  *)
(* (the snapshot manager, the broker and the server-manager session).      *)
(*                                                                         *)
(* The runner is one sequential async task.  Its position (pc) names the   *)
(* collaborator call it makes next; every action below is one such call    *)
(* together with the local code that follows it up to the next call.  The  *)
(* process may be killed between any two calls (Crash) and is started      *)
(* again by its supervisor (Restart).                                      *)
(***************************************************************************)
EXTENDS Integers, Sequences, FiniteSets, TLC

(***************************************************************************)
(* Bounds.                                                                 *)
(***************************************************************************)
\* Number of events in the input stream.
LogLen == 3
\* Largest value of the machine integers (stands for u64::MAX = 2^64 - 1).
MaxU64 == 3
\* Epochs 0 .. MaxPreClaims-1 may already have a claim in the log at start.
MaxPreClaims == 1
\* Number of inputs a session state holds at most (a log with a wrong
\* epoch_index can be applied over and over).
MaxApplied == 3

U64 == 0 .. MaxU64
U64Modulus == MaxU64 + 1

(***************************************************************************)
(* Events (rollups_events::Event<RollupsInput>), as the runner reads them. *)
(***************************************************************************)
\* The id that precedes the first event of the stream.
InitialId == 0

Kinds == {"AdvanceStateInput", "FinishEpoch"}

AdvanceData(i) ==
    [kind |-> "AdvanceStateInput", metadata |-> <<"metadata", i>>,
     payload |-> <<"payload", i>>]

FinishData == [kind |-> "FinishEpoch"]

MkEvent(i, parent, epoch, sent, data) ==
    [id |-> i,
     payload |-> [parent_id |-> parent, epoch_index |-> epoch,
                  inputs_sent_count |-> sent, data |-> data]]

IsAdvance(ev) == ev.payload.data.kind = "AdvanceStateInput"
IsFinish(ev) == ev.payload.data.kind = "FinishEpoch"

\* What a correct upstream writes at position i of a stream of kinds ks.
FinishesBefore(ks, i) == Cardinality({j \in 1 .. (i - 1) : ks[j] = "FinishEpoch"})
AdvancesUpTo(ks, i) == Cardinality({j \in 1 .. i : ks[j] = "AdvanceStateInput"})

WellFormedEvent(ks, i) ==
    MkEvent(i, i - 1, FinishesBefore(ks, i), AdvancesUpTo(ks, i),
            IF ks[i] = "AdvanceStateInput" THEN AdvanceData(i) ELSE FinishData)

WellFormedLog(ks) == [i \in 1 .. LogLen |-> WellFormedEvent(ks, i)]

\* A stream is well formed, or has one event with one field that a correct
\* upstream would not have written.
Corrupt(ev, field, value) ==
    [ev EXCEPT !.payload =
        CASE field = "parent_id" -> [@ EXCEPT !.parent_id = value]
          [] field = "epoch_index" -> [@ EXCEPT !.epoch_index = value]
          [] OTHER -> [@ EXCEPT !.inputs_sent_count = value]]

Logs ==
    LET wf == {WellFormedLog(ks) : ks \in [1 .. LogLen -> Kinds]}
    IN  wf \cup
        {[l EXCEPT ![i] = Corrupt(l[i], f, v)] :
            l \in wf, i \in 1 .. LogLen,
            f \in {"parent_id", "epoch_index", "inputs_sent_count"},
            v \in U64 \cup (0 .. LogLen)}

IsWellFormed(l) ==
    l = WellFormedLog([i \in 1 .. LogLen |-> l[i].payload.data.kind])

NoEvent == [id |-> InitialId, payload |-> [data |-> [kind |-> "None"]]]
NoSnapshot == [path |-> "", epoch |-> 0, none |-> TRUE]
NoClaim == [epoch |-> 0, inputs |-> 0, none |-> TRUE]
NoError == [kind |-> "None"]
NoInterrupt == [id |-> InitialId, epoch |-> 0, none |-> TRUE]

(***************************************************************************)
(* State.                                                                  *)
(***************************************************************************)
VARIABLES
    \* --- the event log (broker) ---
    log,            \* the input stream: a sequence of events, id = position
    claims,         \* the claims stream: a sequence of [epoch, claim]
    \* --- the snapshot store ---
    latest,         \* the snapshot recorded as latest
    storage,        \* storage[path]: what the session wrote at that location
    \* --- the compute session (server-manager) ---
    session,
    \* --- the runner process (Runner::start and its callees) ---
    pc,             \* the collaborator call the run makes next, or how it ended
    err,            \* the RunnerError the run returned
    last_id,        \* start: last_id
    event,          \* start: event
    event_id,       \* setup: event_id (the value setup returns)
    snapshot,       \* setup / handle_finish: snapshot
    claim_produced, \* handle_finish: claim_produced
    claim,          \* handle_finish: claim
    \* --- observation of the run (history) ---
    calls,          \* the collaborator calls of setup, or of the current event
    before,         \* the store and the claims when that sequence began
    dispatched,     \* ids of the events dispatched in this run, in order
    resumed,        \* the snapshot this run started its session from
    unclaimed,      \* epochs finished in the session when the previous run
                    \* was killed before produce_rollups_claim was called
    interrupted     \* the finish-epoch event the previous run was killed in
                    \* between finish_epoch and set_latest

vars == <<log, claims, latest, storage, session, pc, err, last_id,
          event, event_id, snapshot, claim_produced, claim, calls, before,
          dispatched, resumed, unclaimed, interrupted>>

broker_vars == <<log, claims>>
store_vars == <<latest, storage>>
local_vars == <<last_id, event, event_id, snapshot, claim_produced, claim>>

(***************************************************************************)
(* The collaborators, as the runner uses them.                             *)
(***************************************************************************)
\* SnapshotManager: a location is written once the session checkpointed to it.
\* The store keeps the latest snapshot and one more location: the directory
\* get_storage_directory hands out is the one that is not the latest, emptied.
Unwritten == [written |-> FALSE, state |-> <<>>]
Written(state) == [written |-> TRUE, state |-> state]
Paths == {"a", "b"}
get_storage_directory(current, epoch) ==
    [path |-> CHOOSE q \in Paths : q # current.path, epoch |-> epoch]
InitialSnapshot == [path |-> "a", epoch |-> 0]

\* BrokerFacade::find_previous_finish_epoch: the id of the finish-epoch event
\* that precedes resuming into `epoch`; the start of the stream for epoch 0.
FinishEventsOf(l, epoch) ==
    {i \in 1 .. Len(l) : IsFinish(l[i]) /\ l[i].payload.epoch_index = epoch - 1}

Least(S) == CHOOSE i \in S : \A j \in S : i <= j

find_previous_finish_epoch_found(l, epoch) ==
    epoch = 0 \/ FinishEventsOf(l, epoch) # {}

find_previous_finish_epoch(l, epoch) ==
    IF epoch = 0 THEN InitialId ELSE l[Least(FinishEventsOf(l, epoch))].id

\* BrokerFacade::consume_input: the entry of the stream that follows `after`;
\* the call waits while there is none.
consume_input_ready(l, after) == after + 1 \in 1 .. Len(l)
consume_input(l, after) == l[after + 1]

\* BrokerFacade::was_claim_produced / produce_rollups_claim.
was_claim_produced(cs, epoch) == \E i \in 1 .. Len(cs) : cs[i].epoch = epoch
produce_rollups_claim(cs, epoch, c) == Append(cs, [epoch |-> epoch, claim |-> c])

\* Claims an earlier deployment left in the claims stream.
PriorClaim(e) == [epoch |-> e, claim |-> [epoch |-> e, events |-> 0]]
PriorClaims(k) == [i \in 1 .. k |-> PriorClaim(i - 1)]

\* ServerManagerFacade: the session has an active epoch, declared by
\* start_session and raised by finish_epoch.  It applies what it is sent and
\* acknowledges, whatever epoch and input index the call is addressed at; any
\* call may fail.
NoSession == [active |-> FALSE, epoch |-> 0, applied |-> <<>>, ready |-> {}]

start_session(state, epoch) ==
    [active |-> TRUE, epoch |-> epoch, applied |-> state, ready |-> {}]

AdvanceApplied(epoch, index, metadata, payload) ==
    [kind |-> "AdvanceStateInput", epoch |-> epoch, index |-> index,
     metadata |-> metadata, payload |-> payload]

FinishApplied(epoch) == [kind |-> "FinishEpoch", epoch |-> epoch]

advance_state(s, epoch, index, metadata, payload) ==
    [s EXCEPT !.applied =
        Append(@, AdvanceApplied(epoch, index, metadata, payload))]

finish_epoch(s, epoch) ==
    LET state == Append(s.applied, FinishApplied(epoch))
    IN  [s EXCEPT !.applied = state, !.epoch = @ + 1,
                  !.ready = {c \in @ : c.epoch # epoch} \cup
                            {[epoch |-> epoch, events |-> Len(state)]}]

get_epoch_claim_ready(s, epoch) == \E c \in s.ready : c.epoch = epoch
get_epoch_claim(s, epoch) == CHOOSE c \in s.ready : c.epoch = epoch

(***************************************************************************)
(* The runner's own computations.                                          *)
(***************************************************************************)
\* start, line 95, with the `- 1` left out.
CurrentInputIndexNoOffset(n) == n

\* start, line 95: event.payload.inputs_sent_count - 1, on u64.
SubOverflows(n) == n - 1 < 0
CurrentInputIndex(n) == (n - 1) % U64Modulus

\* handle_finish, line 195, with the `+ 1` left out.
SnapshotEpochNoOffset(e) == e

\* handle_finish, line 195: epoch_index + 1, on u64.
AddOverflows(e) == e + 1 > MaxU64
SnapshotEpoch(e) == (e + 1) % U64Modulus

\* consume_next, line 151, with the check left out.
ParentIdNeverMismatch(ev, last) == FALSE

\* consume_next, line 151.
ParentIdMismatch(ev, last) == ev.payload.parent_id # last

\* consume_next, lines 152-155, with expected and got exchanged.
ParentIdMismatchErrorSwapped(last, ev) ==
    [kind |-> "ParentIdMismatchError", expected |-> ev.payload.parent_id,
     got |-> last]

\* consume_next, lines 152-155.
ParentIdMismatchError(last, ev) ==
    [kind |-> "ParentIdMismatchError", expected |-> last,
     got |-> ev.payload.parent_id]

\* setup, line 124, looking up the event of the epoch before.
SetupEpochBefore(snap) == IF snap.epoch = 0 THEN 0 ELSE snap.epoch - 1

\* setup, line 124: the epoch the finish-epoch event is looked up for.
SetupEpoch(snap) == snap.epoch

\* start, line 106, keeping the id the event was read after.
NextLastIdStale(ev) == ev.payload.parent_id

\* start, line 106.
NextLastId(ev) == ev.id

\* start, line 83, starting at the head of the stream whatever setup returned.
FirstLastIdFromStart(id) == InitialId

\* start, line 83: the loop starts behind the event setup returned.
FirstLastId(id) == id

\* handle_finish, line 222, with the guard always false.
NeverProduceClaim(produced) == FALSE

\* handle_finish, line 222, with the guard left out.
AlwaysProduceClaim(produced) == TRUE

\* handle_finish, line 222.
ShouldProduceClaim(produced) == ~produced

(***************************************************************************)
(* Recording a call and its outcome.                                       *)
(***************************************************************************)
\* What a sequence of calls is compared against when it has been made.
Observed == [latest |-> latest, claims |-> claims, storage |-> storage]

Call(op, arg, ok, ret) == [op |-> op, arg |-> arg, ok |-> ok, ret |-> ret]
NoRet == <<>>

Returned(op, arg, ret) == calls' = Append(calls, Call(op, arg, TRUE, ret))

\* The `?` after a call left out, and the call made again.
FailedAndRetried(op, arg, kind) ==
    /\ calls' = Append(calls, Call(op, arg, FALSE, NoRet))
    /\ pc' = pc
    /\ err' = err
    /\ unclaimed' = unclaimed

\* The `?` after a call: the run ends with the error of that call.
Failed(op, arg, kind) ==
    /\ calls' = Append(calls, Call(op, arg, FALSE, NoRet))
    /\ pc' = "failed"
    /\ err' = [kind |-> kind]
    /\ unclaimed' = {}

Init ==
    /\ log \in Logs
    /\ claims \in {PriorClaims(k) : k \in 0 .. MaxPreClaims}
    /\ latest = InitialSnapshot
    /\ storage = [p \in Paths |->
                    IF p = InitialSnapshot.path THEN Written(<<>>) ELSE Unwritten]
    /\ session = NoSession
    /\ pc = "get_latest"
    /\ err = NoError
    /\ last_id = InitialId
    /\ event = NoEvent
    /\ event_id = InitialId
    /\ snapshot = NoSnapshot
    /\ claim_produced = FALSE
    /\ claim = NoClaim
    /\ calls = <<>>
    /\ before = Observed
    /\ dispatched = <<>>
    /\ resumed = NoSnapshot
    /\ unclaimed = {}
    /\ interrupted = NoInterrupt

(***************************************************************************)
(* setup (lines 111-135).                                                  *)
(***************************************************************************)
GetLatest ==
    /\ pc = "get_latest"
    /\ \/ /\ Returned("get_latest", <<>>, latest)
          /\ snapshot' = latest
          /\ pc' = "find_previous_finish_epoch"
          /\ UNCHANGED <<err, unclaimed>>
       \/ /\ Failed("get_latest", <<>>, "GetLatestSnapshotError")
          /\ UNCHANGED snapshot
    /\ UNCHANGED <<broker_vars, store_vars, session, last_id, event, event_id,
                   claim_produced, claim, before, dispatched,
                   resumed, interrupted>>

FindPreviousFinishEpoch ==
    /\ pc = "find_previous_finish_epoch"
    /\ LET epoch == SetupEpoch(snapshot)
       IN  \/ /\ find_previous_finish_epoch_found(log, epoch)
              /\ Returned("find_previous_finish_epoch", <<epoch>>,
                          find_previous_finish_epoch(log, epoch))
              /\ event_id' = find_previous_finish_epoch(log, epoch)
              /\ pc' = "start_session"
              /\ UNCHANGED <<err, unclaimed>>
           \/ /\ Failed("find_previous_finish_epoch", <<epoch>>,
                        "FindFinishEpochInputError")
              /\ UNCHANGED event_id
    /\ UNCHANGED <<broker_vars, store_vars, session, last_id, event, snapshot,
                   claim_produced, claim, before, dispatched,
                   resumed, interrupted>>

\* setup, lines 129-132, with the error of start_session dropped.
StartSessionErrorDropped ==
    /\ pc = "start_session"
    /\ \/ /\ storage[snapshot.path].written
          /\ Returned("start_session", <<snapshot.path, snapshot.epoch>>, NoRet)
          /\ session' = start_session(storage[snapshot.path].state,
                                      snapshot.epoch)
          /\ resumed' = snapshot
       \/ /\ calls' = Append(calls, Call("start_session",
                    <<snapshot.path, snapshot.epoch>>, FALSE, NoRet))
          /\ UNCHANGED <<session, resumed>>
    /\ last_id' = FirstLastId(event_id)
    /\ snapshot' = NoSnapshot
    /\ pc' = "consume_input"
    /\ UNCHANGED <<broker_vars, store_vars, event, event_id, claim_produced,
                   claim, before, dispatched, interrupted, err, unclaimed>>

StartSession ==
    /\ pc = "start_session"
    /\ \/ /\ storage[snapshot.path].written
          /\ Returned("start_session", <<snapshot.path, snapshot.epoch>>, NoRet)
          /\ session' = start_session(storage[snapshot.path].state,
                                      snapshot.epoch)
          \* start, line 83: let mut last_id = runner.setup().await?
          /\ last_id' = FirstLastId(event_id)
          /\ resumed' = snapshot
          /\ snapshot' = NoSnapshot
          /\ pc' = "consume_input"
          /\ UNCHANGED <<err, unclaimed>>
       \/ /\ Failed("start_session", <<snapshot.path, snapshot.epoch>>,
                    "CreateSessionError")
          /\ UNCHANGED <<session, last_id, snapshot, resumed>>
    /\ UNCHANGED <<broker_vars, store_vars, event, event_id, claim_produced,
                   claim, before, dispatched, interrupted>>

(***************************************************************************)
(* The main loop (lines 86-108) and consume_next (lines 138-159).          *)
(***************************************************************************)
\* The loop of lines 86-108 left after one iteration, start returning Ok.
EndDispatchReturnsOk ==
    /\ last_id' = event.id
    /\ event' = NoEvent
    /\ snapshot' = NoSnapshot
    /\ claim_produced' = FALSE
    /\ claim' = NoClaim
    /\ pc' = "returned"

\* The end of one iteration: line 106, and the iteration's locals go.
EndDispatch ==
    /\ last_id' = NextLastId(event)
    /\ event' = NoEvent
    /\ snapshot' = NoSnapshot
    /\ claim_produced' = FALSE
    /\ claim' = NoClaim
    /\ pc' = "consume_input"

\* A panic ends the process (arithmetic overflow with overflow checks on).
Panic ==
    /\ pc' = "panicked"
    /\ unclaimed' = {}
    /\ UNCHANGED err

\* The match of lines 90-104 with handle_finish in both arms.
ConsumeNextOneHandler ==
    /\ pc = "consume_input"
    /\ before' = Observed
    /\ \/ /\ calls' = <<Call("consume_input", <<last_id>>, FALSE, NoRet)>>
          /\ pc' = "failed"
          /\ err' = [kind |-> "ConsumeInputError"]
          /\ unclaimed' = {}
          /\ UNCHANGED <<event, dispatched>>
       \/ /\ consume_input_ready(log, last_id)
          /\ LET ev == consume_input(log, last_id)
             IN  /\ calls' = <<Call("consume_input", <<last_id>>, TRUE, ev)>>
                 /\ event' = ev
                 /\ \/ /\ ParentIdMismatch(ev, last_id)
                       /\ pc' = "failed"
                       /\ err' = ParentIdMismatchError(last_id, ev)
                       /\ unclaimed' = {}
                       /\ UNCHANGED dispatched
                    \/ /\ ~ParentIdMismatch(ev, last_id)
                       /\ pc' = "get_storage_directory"
                       /\ dispatched' = Append(dispatched, ev.id)
                       /\ UNCHANGED <<err, unclaimed>>
    /\ UNCHANGED <<broker_vars, store_vars, session, last_id, event_id,
                   snapshot, claim_produced, claim, resumed, interrupted>>

\* consume_next, then the match of lines 90-104 up to the first call of the
\* handler it enters.
ConsumeNext ==
    /\ pc = "consume_input"
    /\ before' = Observed
    /\ \/ /\ calls' = <<Call("consume_input", <<last_id>>, FALSE, NoRet)>>
          /\ pc' = "failed"
          /\ err' = [kind |-> "ConsumeInputError"]
          /\ unclaimed' = {}
          /\ UNCHANGED <<event, dispatched>>
       \/ /\ consume_input_ready(log, last_id)
          /\ LET ev == consume_input(log, last_id)
             IN  /\ calls' = <<Call("consume_input", <<last_id>>, TRUE, ev)>>
                 /\ event' = ev
                 /\ \/ /\ ParentIdMismatch(ev, last_id)
                       /\ pc' = "failed"
                       /\ err' = ParentIdMismatchError(last_id, ev)
                       /\ unclaimed' = {}
                       /\ UNCHANGED dispatched
                    \/ /\ ~ParentIdMismatch(ev, last_id)
                       /\ IsAdvance(ev)
                       /\ SubOverflows(ev.payload.inputs_sent_count)
                       /\ Panic
                       /\ UNCHANGED dispatched
                    \/ /\ ~ParentIdMismatch(ev, last_id)
                       /\ IsAdvance(ev)
                       /\ pc' = "advance_state"
                       /\ dispatched' = Append(dispatched, ev.id)
                       /\ UNCHANGED <<err, unclaimed>>
                    \/ /\ ~ParentIdMismatch(ev, last_id)
                       /\ IsFinish(ev)
                       /\ pc' = "get_storage_directory"
                       /\ dispatched' = Append(dispatched, ev.id)
                       /\ UNCHANGED <<err, unclaimed>>
    /\ UNCHANGED <<broker_vars, store_vars, session, last_id, event_id,
                   snapshot, claim_produced, claim, resumed, interrupted>>

(***************************************************************************)
(* handle_advance (lines 162-183).                                         *)
(***************************************************************************)
\* handle_advance, lines 171-176, with the epoch and the input index exchanged.
AdvanceArgsExchanged(ev) ==
    <<CurrentInputIndex(ev.payload.inputs_sent_count), ev.payload.epoch_index,
      ev.payload.data.metadata, ev.payload.data.payload>>

AdvanceArgs(ev) ==
    <<ev.payload.epoch_index, CurrentInputIndex(ev.payload.inputs_sent_count),
      ev.payload.data.metadata, ev.payload.data.payload>>

AdvanceState ==
    /\ pc = "advance_state"
    /\ LET arg == AdvanceArgs(event)
       IN  \/ /\ Len(session.applied) < MaxApplied
              /\ Returned("advance_state", arg, NoRet)
              /\ session' = advance_state(session, arg[1], arg[2], arg[3],
                                          arg[4])
              /\ EndDispatch
              /\ UNCHANGED <<err, unclaimed>>
           \/ /\ Failed("advance_state", arg, "AdvanceError")
              /\ UNCHANGED <<session, last_id, event, snapshot, claim_produced,
                             claim>>
    /\ UNCHANGED <<broker_vars, store_vars, event_id, before, dispatched,
                   resumed, interrupted>>

(***************************************************************************)
(* handle_finish (lines 186-238).                                          *)
(***************************************************************************)
GetStorageDirectory ==
    /\ pc = "get_storage_directory"
    /\ LET epoch_index == event.payload.epoch_index
           arg == <<SnapshotEpoch(epoch_index)>>
           got == get_storage_directory(latest, arg[1])
       IN  \/ /\ AddOverflows(epoch_index)
              /\ Panic
              /\ UNCHANGED <<calls, snapshot, storage>>
           \/ /\ Returned("get_storage_directory", arg, got)
              /\ snapshot' = got
              /\ storage' = [storage EXCEPT ![got.path] = Unwritten]
              /\ pc' = "finish_epoch"
              /\ UNCHANGED <<err, unclaimed>>
           \/ /\ Failed("get_storage_directory", arg,
                        "GetStorageDirectoryError")
              /\ UNCHANGED <<snapshot, storage>>
    /\ UNCHANGED <<broker_vars, latest, session, last_id, event,
                   event_id, claim_produced, claim, before, dispatched,
                   resumed, interrupted>>

\* handle_finish, lines 200-203, with the error of finish_epoch dropped.
FinishEpochErrorDropped ==
    /\ pc = "finish_epoch"
    /\ LET epoch_index == event.payload.epoch_index
           arg == <<epoch_index, snapshot.path>>
       IN  \/ /\ Len(session.applied) < MaxApplied
              /\ Returned("finish_epoch", arg, NoRet)
              /\ session' = finish_epoch(session, epoch_index)
              /\ storage' = [storage EXCEPT ![snapshot.path] =
                    Written(finish_epoch(session, epoch_index).applied)]
           \/ /\ calls' = Append(calls, Call("finish_epoch", arg, FALSE, NoRet))
              /\ UNCHANGED <<session, storage>>
    /\ pc' = "set_latest"
    /\ UNCHANGED <<broker_vars, latest, last_id, event, event_id,
                   snapshot, claim_produced, claim, before, dispatched, err,
                   unclaimed, resumed, interrupted>>

FinishEpoch ==
    /\ pc = "finish_epoch"
    /\ LET epoch_index == event.payload.epoch_index
           arg == <<epoch_index, snapshot.path>>
       IN  \/ /\ Len(session.applied) < MaxApplied
              /\ Returned("finish_epoch", arg, NoRet)
              /\ session' = finish_epoch(session, epoch_index)
              /\ storage' = [storage EXCEPT ![snapshot.path] =
                    Written(finish_epoch(session, epoch_index).applied)]
              /\ pc' = "set_latest"
              /\ UNCHANGED <<err, unclaimed>>
           \/ /\ Failed("finish_epoch", arg, "FinishEpochError")
              /\ UNCHANGED <<session, storage>>
    /\ UNCHANGED <<broker_vars, latest, last_id, event, event_id,
                   snapshot, claim_produced, claim, before, dispatched,
                   resumed, interrupted>>

\* handle_finish, lines 206-209, with the error of set_latest dropped.
SetLatestErrorDropped ==
    /\ pc = "set_latest"
    /\ \/ /\ Returned("set_latest", <<snapshot>>, NoRet)
          /\ latest' = snapshot
       \/ /\ calls' = Append(calls, Call("set_latest", <<snapshot>>, FALSE,
                                         NoRet))
          /\ UNCHANGED latest
    /\ pc' = "was_claim_produced"
    /\ UNCHANGED <<broker_vars, storage, session, last_id, event,
                   event_id, snapshot, claim_produced, claim, before,
                   dispatched, resumed, interrupted, err, unclaimed>>

SetLatest ==
    /\ pc = "set_latest"
    /\ \/ /\ Returned("set_latest", <<snapshot>>, NoRet)
          /\ latest' = snapshot
          /\ pc' = "was_claim_produced"
          /\ UNCHANGED <<err, unclaimed>>
       \/ /\ Failed("set_latest", <<snapshot>>, "SetLatestSnapshotError")
          /\ UNCHANGED latest
    /\ UNCHANGED <<broker_vars, storage, session, last_id, event,
                   event_id, snapshot, claim_produced, claim, before,
                   dispatched,
                   resumed, interrupted>>

WasClaimProduced ==
    /\ pc = "was_claim_produced"
    /\ LET epoch_index == event.payload.epoch_index
           produced == was_claim_produced(claims, epoch_index)
       IN  \/ /\ ShouldProduceClaim(produced)
              /\ Returned("was_claim_produced", <<epoch_index>>, produced)
              /\ claim_produced' = produced
              /\ pc' = "get_epoch_claim"
              /\ UNCHANGED <<err, unclaimed, last_id, event, snapshot, claim>>
           \/ /\ ~ShouldProduceClaim(produced)
              /\ Returned("was_claim_produced", <<epoch_index>>, produced)
              /\ EndDispatch
              /\ UNCHANGED <<err, unclaimed>>
           \/ /\ Failed("was_claim_produced", <<epoch_index>>, "PeekClaimError")
              /\ UNCHANGED <<last_id, event, snapshot, claim_produced, claim>>
    /\ UNCHANGED <<broker_vars, store_vars, session, event_id, before,
                   dispatched,
                   resumed, interrupted>>

GetEpochClaim ==
    /\ pc = "get_epoch_claim"
    /\ LET epoch_index == event.payload.epoch_index
       IN  \/ /\ get_epoch_claim_ready(session, epoch_index)
              /\ Returned("get_epoch_claim", <<epoch_index>>,
                          get_epoch_claim(session, epoch_index))
              /\ claim' = get_epoch_claim(session, epoch_index)
              /\ pc' = "produce_rollups_claim"
              /\ UNCHANGED <<err, unclaimed>>
           \/ /\ Failed("get_epoch_claim", <<epoch_index>>,
                        "GetEpochClaimError")
              /\ UNCHANGED claim
    /\ UNCHANGED <<broker_vars, store_vars, session, last_id, event, event_id,
                   snapshot, claim_produced, before, dispatched,
                   resumed, interrupted>>

ProduceRollupsClaim ==
    /\ pc = "produce_rollups_claim"
    /\ LET epoch_index == event.payload.epoch_index
       IN  \/ /\ Returned("produce_rollups_claim", <<epoch_index, claim>>,
                          NoRet)
              /\ claims' = produce_rollups_claim(claims, epoch_index, claim)
              /\ EndDispatch
              /\ UNCHANGED <<err, unclaimed>>
           \/ /\ Failed("produce_rollups_claim", <<epoch_index, claim>>,
                        "ProduceClaimError")
              /\ UNCHANGED <<claims, last_id, event, snapshot, claim_produced,
                             claim>>
    /\ UNCHANGED <<log, store_vars, session, event_id, before, dispatched,
                   resumed, interrupted>>

(***************************************************************************)
(* The process: killed between two calls, started again by its supervisor. *)
(***************************************************************************)
Running ==
    pc \in {"get_latest", "find_previous_finish_epoch", "start_session",
            "consume_input", "advance_state", "get_storage_directory",
            "finish_epoch", "set_latest", "was_claim_produced",
            "get_epoch_claim", "produce_rollups_claim"}

\* finish_epoch has succeeded and produce_rollups_claim is not yet called.
FinishedNotClaimed ==
    pc \in {"set_latest", "was_claim_produced", "get_epoch_claim",
            "produce_rollups_claim"}

ResetRun ==
    /\ err' = NoError
    /\ last_id' = InitialId
    /\ event' = NoEvent
    /\ event_id' = InitialId
    /\ snapshot' = NoSnapshot
    /\ claim_produced' = FALSE
    /\ claim' = NoClaim
    /\ calls' = <<>>
    /\ dispatched' = <<>>
    /\ resumed' = NoSnapshot

Crash ==
    /\ Running
    /\ pc' = "down"
    /\ unclaimed' = IF FinishedNotClaimed THEN {event.payload.epoch_index}
                    ELSE {}
    /\ interrupted' = IF pc = "set_latest"
                      THEN [id |-> event.id, epoch |-> event.payload.epoch_index]
                      ELSE NoInterrupt
    /\ ResetRun
    /\ UNCHANGED <<broker_vars, store_vars, session, before>>

Restart ==
    /\ pc \in {"down", "failed", "panicked"}
    /\ pc' = "get_latest"
    /\ ResetRun
    /\ before' = Observed
    \* What is known of the previous run is of a run that was killed.
    /\ interrupted' = IF unclaimed = {} THEN NoInterrupt ELSE interrupted
    /\ UNCHANGED <<broker_vars, store_vars, session, unclaimed>>

Next ==
    \/ GetLatest
    \/ FindPreviousFinishEpoch
    \/ StartSession
    \/ ConsumeNext
    \/ AdvanceState
    \/ GetStorageDirectory
    \/ FinishEpoch
    \/ SetLatest
    \/ WasClaimProduced
    \/ GetEpochClaim
    \/ ProduceRollupsClaim
    \/ Crash
    \/ Restart

Spec == Init /\ [][Next]_vars

\* The runner is a task of the async runtime: while it is not killed and a
\* call of it can return, its next step is taken.  consume_input stays
\* pending while the stream holds no entry behind last_id: nothing wakes the
\* task then, and the run may wait there for ever.
RunnerStep ==
    \/ GetLatest
    \/ FindPreviousFinishEpoch
    \/ StartSession
    \/ consume_input_ready(log, last_id) /\ ConsumeNext
    \/ AdvanceState
    \/ GetStorageDirectory
    \/ FinishEpoch
    \/ SetLatest
    \/ WasClaimProduced
    \/ GetEpochClaim
    \/ ProduceRollupsClaim

FairSpec == Spec /\ WF_vars(RunnerStep)

(***************************************************************************)
(* Properties.                                                             *)
(***************************************************************************)
CallsOf(op) == {i \in 1 .. Len(calls) : calls[i].op = op}
Consumed == event # NoEvent

\* C1: every event a run dispatches (to handle_advance or handle_finish) has
\* as parent_id the id of the event the run dispatched just before it, and
\* the first one the id setup returned; whatever events the log holds.
ChainContiguity ==
    \A i \in 1 .. Len(dispatched) :
        log[dispatched[i]].payload.parent_id =
            IF i = 1 THEN event_id ELSE dispatched[i - 1]

\* A run resumed behind a finish-epoch event has dispatched two events.
ChainContiguityWitness ==
    /\ Len(dispatched) >= 2
    /\ event_id # InitialId

\* C2: an event read with a parent_id other than last_id ends the run with
\* ParentIdMismatchError{expected: last_id, got: parent_id}; consume_input is
\* the only call made for it, the snapshot store and the claims are as they
\* were, and last_id is still the id the event was read after.
ParentMismatchEndsRun ==
    (Consumed /\ event.payload.parent_id # last_id) =>
        /\ pc = "failed"
        /\ err = [kind |-> "ParentIdMismatchError", expected |-> last_id,
                  got |-> event.payload.parent_id]
        /\ Len(calls) = 1
        /\ calls[1] = Call("consume_input", <<last_id>>, TRUE, event)
        /\ latest = before.latest
        /\ claims = before.claims
        /\ event.id \notin {dispatched[i] : i \in 1 .. Len(dispatched)}

\* The mismatch is met after the run has consumed an event.
ParentMismatchWitness ==
    /\ pc = "failed"
    /\ err.kind = "ParentIdMismatchError"
    /\ Len(dispatched) >= 1
    /\ err.expected # err.got

\* C3: the claims stream never holds two claims for one epoch, over all runs,
\* crashes and restarts.
ClaimAtMostOnce ==
    \A e \in U64 :
        Cardinality({i \in 1 .. Len(claims) : claims[i].epoch = e}) <= 1

\* A run that was started again after a claim was published has itself
\* published the claim of a later epoch.
ClaimAtMostOnceWitness ==
    /\ Len(claims) >= 2
    /\ event_id # InitialId
    /\ calls # <<>>
    /\ calls[Len(calls)].op = "produce_rollups_claim"
    /\ calls[Len(calls)].ok

\* C4 (as claimed): once the run that follows a kill between finish_epoch(e)
\* and produce_rollups_claim(e) has handled the whole log without a failure,
\* the claim of epoch e is in the claims stream.
UnclaimedEpochIsClaimed ==
    (/\ IsWellFormed(log)
     /\ pc = "consume_input"
     /\ ~consume_input_ready(log, last_id)) =>
        \A e \in unclaimed : was_claim_produced(claims, e)

\* C5: in handle_finish for epoch e, after was_claim_produced(e) answered true
\* no further call is made; after it answered false the next call is
\* get_epoch_claim(e), the one after it produce_rollups_claim(e, claim) with
\* the claim get_epoch_claim returned, and there is no other.
ClaimIdempotency ==
    /\ \A i \in CallsOf("was_claim_produced") :
          LET e == calls[i].arg[1]
              n == Len(calls) - i
          IN  /\ e = calls[1].ret.payload.epoch_index
              /\ n <= 2
              /\ (calls[i].ok /\ calls[i].ret) =>
                    /\ n = 0
                    /\ pc = "consume_input"
                    /\ claims = before.claims
              /\ (calls[i].ok /\ ~calls[i].ret /\ n = 0) =>
                    pc = "get_epoch_claim"
              /\ n >= 1 =>
                    /\ calls[i].ok /\ ~calls[i].ret
                    /\ calls[i + 1].op = "get_epoch_claim"
                    /\ calls[i + 1].arg = <<e>>
              /\ (n = 1 /\ calls[i + 1].ok) => pc = "produce_rollups_claim"
              /\ n = 2 =>
                    /\ calls[i + 1].ok
                    /\ calls[i + 2].op = "produce_rollups_claim"
                    /\ calls[i + 2].arg = <<e, calls[i + 1].ret>>
                    /\ calls[i + 2].ok =>
                          claims = Append(before.claims,
                              [epoch |-> e, claim |-> calls[i + 1].ret])
    /\ \A j \in CallsOf("get_epoch_claim") \cup CallsOf("produce_rollups_claim") :
          \E i \in CallsOf("was_claim_produced") : i < j
    /\ Cardinality(CallsOf("was_claim_produced")) <= 1

\* handle_finish has returned after was_claim_produced answered true.
ClaimIdempotencyWitness ==
    /\ pc = "consume_input"
    /\ \E i \in CallsOf("was_claim_produced") : calls[i].ok /\ calls[i].ret

\* The event the current sequence of calls was made for.
CurrentEvent == calls[1].ret
ForFinishEvent ==
    /\ calls # <<>>
    /\ calls[1].op = "consume_input"
    /\ calls[1].ok
    /\ IsFinish(CurrentEvent)
ForAdvanceEvent ==
    /\ calls # <<>>
    /\ calls[1].op = "consume_input"
    /\ calls[1].ok
    /\ IsAdvance(CurrentEvent)

\* C6 (as claimed): handling a FinishEpoch event with epoch_index e calls
\* get_storage_directory(e + 1).
StorageDirectoryForNextEpoch ==
    \A i \in CallsOf("get_storage_directory") :
        calls[i].arg = <<CurrentEvent.payload.epoch_index + 1>>

\* C6 (amended): handling a FinishEpoch event with epoch_index e below the
\* largest u64 calls get_storage_directory(e + 1); finish_epoch is called with
\* e and the path returned; set_latest is called with the snapshot returned,
\* and past set_latest that snapshot, of epoch e + 1, is the latest.  With e
\* the largest u64, e + 1 overflows: the run panics before any call, or
\* get_storage_directory(0) is called.
EpochOffset ==
    ForFinishEvent =>
        LET e == CurrentEvent.payload.epoch_index
            got == calls[2].ret
        IN  /\ (Len(calls) = 1 /\ CurrentEvent.payload.parent_id = calls[1].arg[1]) =>
                  \/ pc = "get_storage_directory"
                  \/ e = MaxU64 /\ pc = "panicked"
            /\ Len(calls) >= 2 =>
                  /\ calls[2].op = "get_storage_directory"
                  /\ calls[2].arg = <<IF e < MaxU64 THEN e + 1 ELSE 0>>
                  /\ calls[2].ok => got.epoch = calls[2].arg[1]
            /\ Len(calls) >= 3 =>
                  /\ calls[3].op = "finish_epoch"
                  /\ calls[3].arg = <<e, got.path>>
            /\ Len(calls) >= 4 =>
                  /\ calls[4].op = "set_latest"
                  /\ calls[4].arg = <<got>>
                  /\ calls[4].ok =>
                        /\ latest = got
                        /\ latest.epoch = calls[2].arg[1]

\* handle_finish of an epoch after the first is past set_latest.
EpochOffsetWitness ==
    /\ ForFinishEvent
    /\ CurrentEvent.payload.epoch_index >= 1
    /\ Len(calls) >= 4
    /\ calls[4].ok
    /\ pc = "was_claim_produced"

\* C7 (as claimed): whatever the inputs_sent_count n of an AdvanceStateInput
\* event, advance_state is called with input index n - 1.
InputIndexIsCountMinusOne ==
    \A i \in CallsOf("advance_state") :
        calls[i].arg[2] = CurrentEvent.payload.inputs_sent_count - 1

\* C7 (amended): for an AdvanceStateInput event with inputs_sent_count n >= 1,
\* advance_state is called with the event's epoch_index, input index n - 1,
\* and the event's metadata and payload.  With n = 0 the subtraction
\* overflows: the run panics without calling advance_state, or the call is
\* made with the largest u64 as input index.
InputIndexDerivation ==
    ForAdvanceEvent =>
        LET p == CurrentEvent.payload
            n == p.inputs_sent_count
        IN  /\ (Len(calls) = 1 /\ p.parent_id = calls[1].arg[1]) =>
                  \/ pc = "advance_state"
                  \/ n = 0 /\ pc = "panicked"
            /\ Len(calls) >= 2 =>
                  /\ Len(calls) = 2
                  /\ calls[2].op = "advance_state"
                  /\ calls[2].arg =
                        <<p.epoch_index, IF n >= 1 THEN n - 1 ELSE MaxU64,
                          p.data.metadata, p.data.payload>>

\* The session has accepted the second input of an epoch.
InputIndexDerivationWitness ==
    /\ ForAdvanceEvent
    /\ Len(calls) = 2
    /\ calls[2].ok
    /\ calls[2].arg[2] = 1
    /\ CurrentEvent.payload.inputs_sent_count = 2

\* The finish-epoch event a snapshot of `epoch` was taken at: the epoch-th
\* FinishEpoch event of the stream; its start for epoch 0.
FinishPositions(l) == {i \in 1 .. Len(l) : IsFinish(l[i])}
ResumeId(l, epoch) ==
    IF epoch = 0 THEN InitialId
    ELSE CHOOSE i \in FinishPositions(l) :
            Cardinality({j \in FinishPositions(l) : j <= i}) = epoch

\* Every event carries the epoch_index a correct upstream writes: the number
\* of FinishEpoch events before it.
EpochIndexWellFormed ==
    \A i \in 1 .. Len(log) :
        log[i].payload.epoch_index = FinishesBefore(
            [j \in 1 .. Len(log) |-> log[j].payload.data.kind], i)

\* C8: every execution of setup reads the latest snapshot, looks up the
\* finish-epoch event of its epoch, starts the session from its path at its
\* epoch, and returns the id the lookup gave as the first last_id: a result
\* fixed by the latest snapshot and the log, the same at every restart; on a
\* log with the right epoch_index it is the id of the finish-epoch event the
\* snapshot was taken at.  setup changes neither the latest snapshot nor the
\* claims.
RecoveryDeterminism ==
    (calls # <<>> /\ calls[1].op = "get_latest" /\ calls[1].ok) =>
        /\ calls[1].ret = latest
        /\ latest = before.latest
        /\ claims = before.claims
        /\ Len(calls) >= 2 =>
              /\ calls[2].op = "find_previous_finish_epoch"
              /\ calls[2].arg = <<latest.epoch>>
              /\ calls[2].ok =>
                    /\ find_previous_finish_epoch_found(log, latest.epoch)
                    /\ calls[2].ret =
                          find_previous_finish_epoch(log, latest.epoch)
                    /\ event_id = calls[2].ret
                    /\ EpochIndexWellFormed =>
                          event_id = ResumeId(log, latest.epoch)
        /\ Len(calls) >= 3 =>
              /\ Len(calls) = 3
              /\ calls[3].op = "start_session"
              /\ calls[3].arg = <<latest.path, latest.epoch>>
              /\ calls[3].ok =>
                    /\ pc = "consume_input"
                    /\ last_id = find_previous_finish_epoch(log, latest.epoch)
                    /\ EpochIndexWellFormed =>
                          last_id = ResumeId(log, latest.epoch)
                    /\ session = start_session(storage[latest.path].state,
                                               latest.epoch)

\* setup has completed over the snapshot of the third epoch, taken by an
\* earlier run.
RecoveryDeterminismWitness ==
    /\ Len(calls) = 3
    /\ calls[3].op = "start_session"
    /\ calls[3].ok
    /\ latest.epoch = 2
    /\ last_id >= 2

\* What the session holds for an event of the log.
AppliedMatches(rec, ev) ==
    IF IsAdvance(ev)
    THEN /\ rec.kind = "AdvanceStateInput"
         /\ rec.epoch = ev.payload.epoch_index
         /\ rec.metadata = ev.payload.data.metadata
         /\ rec.payload = ev.payload.data.payload
    ELSE rec = FinishApplied(ev.payload.epoch_index)

Driving ==
    pc \in {"consume_input", "advance_state", "get_storage_directory",
            "finish_epoch", "set_latest", "was_claim_produced",
            "get_epoch_claim", "produce_rollups_claim"}

\* The state of the session holds the events of the log up to the one the
\* run handled last, each once and in log order.
IsLogPrefix(applied) ==
    /\ Len(applied) <= Len(log)
    /\ \A j \in 1 .. Len(applied) : AppliedMatches(applied[j], log[j])
    /\ Driving =>
          Len(applied) = last_id + (IF FinishedNotClaimed THEN 1 ELSE 0)

\* C9 (as claimed): on every log, over all runs, kills and restarts, the state
\* of the session a run drives is a prefix of the log.
AppliedIsLogPrefix == IsLogPrefix(session.applied)

\* C9 (amended): the same, on a log in which every event carries the
\* epoch_index a correct upstream writes.  The runner resumes behind the
\* event find_previous_finish_epoch locates for the snapshot's epoch, and the
\* snapshot's epoch is the epoch_index of the finish event plus one: a
\* FinishEpoch event with a wrong epoch_index records a snapshot whose lookup
\* locates another event than the one the snapshot was taken at.
AppliedIsLogPrefixOfWellFormed ==
    EpochIndexWellFormed => IsLogPrefix(session.applied)

\* A run that resumed behind a finish-epoch event has applied the whole log.
AppliedIsLogPrefixWitness ==
    /\ EpochIndexWellFormed
    /\ pc = "consume_input"
    /\ event_id # InitialId
    /\ Len(dispatched) >= 1
    /\ Len(session.applied) = Len(log)

\* C10: set_latest is called only right after finish_epoch succeeded on the
\* path of the snapshot it records, which get_storage_directory returned in
\* the same handle_finish; when get_storage_directory or finish_epoch fails
\* set_latest is not called and the latest snapshot is as it was.
SetLatestAfterFinish ==
    /\ \A i \in CallsOf("set_latest") :
          /\ i >= 3
          /\ calls[i - 1].op = "finish_epoch"
          /\ calls[i - 1].ok
          /\ calls[i - 1].arg[2] = calls[i].arg[1].path
          /\ calls[i - 2].op = "get_storage_directory"
          /\ calls[i - 2].ok
          /\ calls[i - 2].ret = calls[i].arg[1]
    /\ (\E i \in CallsOf("get_storage_directory") \cup CallsOf("finish_epoch") :
            ~calls[i].ok) =>
          /\ CallsOf("set_latest") = {}
          /\ latest = before.latest
          /\ pc = "failed"

\* finish_epoch has failed in a handle_finish that follows a recorded
\* snapshot.
SetLatestAfterFinishWitness ==
    /\ \E i \in CallsOf("finish_epoch") : ~calls[i].ok
    /\ latest.epoch >= 1

\* The run has completed setup; the epoch its session was started at.
Resumed == resumed # NoSnapshot
DispatchedEvents == {log[dispatched[i]] : i \in 1 .. Len(dispatched)}
SessionCalls == CallsOf("advance_state") \cup CallsOf("finish_epoch")

\* The run was started over the snapshot of epoch e + 1 and
\* find_previous_finish_epoch(e + 1) located the finish-epoch event of e, the
\* only one the log holds for e.
ResumedPast(e) ==
    /\ Resumed
    /\ resumed.epoch = e + 1
    /\ IsFinish(log[event_id])
    /\ \A i \in FinishPositions(log) :
          log[i].payload.epoch_index = e <=> i = event_id

\* What C11 asserts of a run resumed past epoch e.
NothingAtOrBefore(e) ==
    /\ \A ev \in DispatchedEvents :
          /\ ev.id > event_id
          /\ ev.payload.epoch_index > e
    /\ \A i \in SessionCalls : calls[i].arg[1] > e

\* C11 (as claimed): a run started over the latest snapshot of epoch e + 1,
\* behind the finish-epoch event of e, never calls finish_epoch for e or an
\* earlier epoch and dispatches no event with epoch_index <= e to its session.
NoRefinishOnAnyLog ==
    \A e \in U64 : ResumedPast(e) => NothingAtOrBefore(e)

\* C11 (amended): the same, for a log in which every event carries the
\* epoch_index a correct upstream writes (the number of FinishEpoch events
\* before it).  The runner does not read epoch_index before it dispatches: an
\* event behind the resume position that carries an epoch_index <= e is
\* dispatched like any other.
NoRefinishAfterRestart ==
    \A e \in U64 :
        (ResumedPast(e) /\ IsWellFormed(log)) => NothingAtOrBefore(e)

\* A run resumed past the first epoch of a well-formed log has called
\* finish_epoch for a later one.
NoRefinishAfterRestartWitness ==
    /\ IsWellFormed(log)
    /\ ResumedPast(0)
    /\ Len(dispatched) >= 2
    /\ CallsOf("finish_epoch") # {}

\* The run that follows a kill between finish_epoch and set_latest.
NextRecovery ==
    /\ interrupted # NoInterrupt
    /\ unclaimed # {}
    /\ pc # "down"

\* What C12 asserts of the run that follows a kill between a successful
\* finish_epoch(e) and set_latest: it reads the snapshot of epoch e as latest,
\* starts its session from it behind the finish-epoch event of e - 1,
\* consumes the events from there on in order, and on reaching the
\* finish-epoch event of e calls get_storage_directory(e + 1) and
\* finish_epoch(e) with the location that call returned, an empty one other
\* than the latest's; it does not get past that event without a snapshot of
\* e + 1 recorded.
RefinishesFromPreviousSnapshot ==
    NextRecovery =>
        LET e == interrupted.epoch
            id == interrupted.id
        IN  /\ pc \in {"get_latest", "find_previous_finish_epoch",
                        "start_session"} => latest.epoch = e
            /\ Resumed =>
                  /\ resumed.epoch = e
                  /\ event_id = ResumeId(log, e)
                  /\ event_id < id
                  /\ \A i \in 1 .. Len(dispatched) :
                        dispatched[i] = event_id + i
                  /\ (Driving /\ last_id < id) =>
                        /\ Len(session.applied) <= id
                        /\ latest = resumed \/ latest = calls[2].ret
                        /\ latest # resumed =>
                              /\ event.id = id
                              /\ \E i \in CallsOf("set_latest") : calls[i].ok
                  /\ (Driving /\ last_id >= id) => latest.epoch > e
            /\ (Consumed /\ event.id = id /\ Len(calls) >= 2) =>
                  /\ calls[2] = Call("get_storage_directory", <<e + 1>>,
                                     calls[2].ok, calls[2].ret)
                  /\ calls[2].ok =>
                        /\ calls[2].ret.path # resumed.path
                        /\ calls[2].ret.epoch = e + 1
                  /\ pc = "finish_epoch" =>
                        /\ snapshot = calls[2].ret
                        /\ storage[snapshot.path] = Unwritten
                  /\ Len(calls) >= 3 =>
                        /\ calls[3].op = "finish_epoch"
                        /\ calls[3].arg = <<e, calls[2].ret.path>>

\* C12 (as claimed): on every log.
RefinishAfterCrashOnAnyLog == RefinishesFromPreviousSnapshot

\* C12 (amended): on a log in which every event carries the epoch_index a
\* correct upstream writes (so e is below the largest u64 and is the epoch of
\* the latest snapshot).  The runner takes e from the event: with another
\* epoch_index the previous snapshot is not the one of epoch e, and with the
\* largest u64 the location is asked for epoch 0.
RefinishAfterCrash ==
    EpochIndexWellFormed => RefinishesFromPreviousSnapshot

\* The run that follows the kill has called finish_epoch again for an epoch
\* after the first, and it succeeded.
RefinishAfterCrashWitness ==
    /\ EpochIndexWellFormed
    /\ NextRecovery
    /\ interrupted.epoch >= 1
    /\ Consumed
    /\ event.id = interrupted.id
    /\ Len(dispatched) >= 2
    /\ pc = "set_latest"
    /\ calls[3].op = "finish_epoch"
    /\ calls[3].ok

\* The sequence of calls cs is a whole setup, or the whole dispatch of one
\* event: every call of it was made and returned success.
OpsOf(cs) == [i \in 1 .. Len(cs) |-> cs[i].op]
CompleteCalls(cs) ==
    /\ \A i \in 1 .. Len(cs) : cs[i].ok
    /\ \/ OpsOf(cs) = <<"get_latest", "find_previous_finish_epoch",
                         "start_session">>
       \/ /\ OpsOf(cs) = <<"consume_input", "advance_state">>
          /\ IsAdvance(cs[1].ret)
       \/ /\ OpsOf(cs) = <<"consume_input", "get_storage_directory",
                            "finish_epoch", "set_latest", "was_claim_produced">>
          /\ IsFinish(cs[1].ret)
          /\ cs[5].ret
       \/ /\ OpsOf(cs) = <<"consume_input", "get_storage_directory",
                            "finish_epoch", "set_latest", "was_claim_produced",
                            "get_epoch_claim", "produce_rollups_claim">>
          /\ IsFinish(cs[1].ret)
          /\ ~cs[5].ret

\* This step calls consume_input.
ConsumeInputCalled ==
    /\ calls' # calls
    /\ Len(calls') = 1
    /\ calls'[1].op = "consume_input"

LastDispatched ==
    IF dispatched = <<>> THEN event_id ELSE dispatched[Len(dispatched)]

\* C13: consume_input is called only when the setup, or the dispatch of the
\* event consumed before, is complete with every call returned success (for a
\* finish event up to set_latest and was_claim_produced and, if no claim was
\* there, get_epoch_claim and produce_rollups_claim); it is called with the id
\* of that event (the id setup returned at first); and the event it returns is
\* dispatched once, never one dispatched before.
OneEventAtATime ==
    [][ConsumeInputCalled =>
          /\ CompleteCalls(calls)
          /\ calls[1].op = "consume_input" =>
                /\ dispatched # <<>>
                /\ calls[1].ret.id = LastDispatched
          /\ calls'[1].arg = <<LastDispatched>>
          /\ \/ dispatched' = dispatched
             \/ /\ calls'[1].ok
                /\ dispatched' = Append(dispatched, calls'[1].ret.id)
                /\ \A i \in 1 .. Len(dispatched) :
                      dispatched[i] < calls'[1].ret.id
       ]_vars

\* consume_input has returned the event that follows a finish-epoch event
\* whose claim this run published.
OneEventAtATimeWitness ==
    /\ Len(calls) = 1
    /\ calls[1].op = "consume_input"
    /\ calls[1].ok
    /\ Len(dispatched) >= 2
    /\ IsFinish(log[calls[1].arg[1]])
    /\ \E i \in 1 .. Len(claims) :
          /\ claims[i].epoch = log[calls[1].arg[1]].payload.epoch_index
          /\ claims[i].claim.events > 0

\* The RunnerError variant each operation's failure is reported as.
ErrorOf(op) ==
    CASE op = "get_latest" -> "GetLatestSnapshotError"
      [] op = "find_previous_finish_epoch" -> "FindFinishEpochInputError"
      [] op = "start_session" -> "CreateSessionError"
      [] op = "consume_input" -> "ConsumeInputError"
      [] op = "advance_state" -> "AdvanceError"
      [] op = "get_storage_directory" -> "GetStorageDirectoryError"
      [] op = "finish_epoch" -> "FinishEpochError"
      [] op = "set_latest" -> "SetLatestSnapshotError"
      [] op = "was_claim_produced" -> "PeekClaimError"
      [] op = "get_epoch_claim" -> "GetEpochClaimError"
      [] op = "produce_rollups_claim" -> "ProduceClaimError"

\* C14: a failed collaborator call is the last call of its run: the run has
\* ended with the RunnerError variant of that operation, and the operation
\* was called once for the event (or the setup) at hand.  A run that ended
\* with an error ended on a failed call or on the parent-id check.
NoRetry ==
    /\ \A i \in 1 .. Len(calls) :
          ~calls[i].ok =>
              /\ i = Len(calls)
              /\ pc = "failed"
              /\ err = [kind |-> ErrorOf(calls[i].op)]
              /\ CallsOf(calls[i].op) = {i}
    /\ pc = "failed" =>
          /\ calls # <<>>
          /\ \/ ~calls[Len(calls)].ok
             \/ /\ err.kind = "ParentIdMismatchError"
                /\ Len(calls) = 1

\* produce_rollups_claim, the last call of handle_finish, has failed.
NoRetryWitness ==
    /\ pc = "failed"
    /\ Len(calls) = 7
    /\ calls[7].op = "produce_rollups_claim"
    /\ ~calls[7].ok
    /\ err.kind = "ProduceClaimError"

\* The calls at hand are those of setup.
InSetup == calls # <<>> /\ calls[1].op = "get_latest"

\* C15: in setup, find_previous_finish_epoch is called only after get_latest
\* succeeded and start_session only after find_previous_finish_epoch
\* succeeded; a failure of one of the three ends the run with nothing
\* consumed; and a run consumes from the log only with its setup complete.
SetupFailsClosed ==
    /\ InSetup =>
          /\ Len(calls) <= 3
          /\ Len(calls) >= 2 =>
                /\ calls[1].ok
                /\ calls[2].op = "find_previous_finish_epoch"
          /\ Len(calls) >= 3 =>
                /\ calls[2].ok
                /\ calls[3].op = "start_session"
          /\ (\E i \in 1 .. Len(calls) : ~calls[i].ok) =>
                /\ pc = "failed"
                /\ ~Resumed
                /\ event = NoEvent
                /\ dispatched = <<>>
                /\ CallsOf("consume_input") = {}
    /\ (Driving \/ CallsOf("consume_input") # {}) =>
          /\ Resumed
          /\ session.active

\* find_previous_finish_epoch has failed in a run over a snapshot an earlier
\* run recorded.
SetupFailsClosedWitness ==
    /\ InSetup
    /\ Len(calls) = 2
    /\ ~calls[2].ok
    /\ latest.epoch >= 1
    /\ pc = "failed"

\* C16: for an AdvanceStateInput event the only call after consume_input is
\* advance_state, made at most once; the latest snapshot, the snapshot
\* locations and the claims are as they were when the event was consumed.
AdvanceLeavesStoreAndClaims ==
    ForAdvanceEvent =>
        /\ Len(calls) <= 2
        /\ Len(calls) = 2 => calls[2].op = "advance_state"
        /\ \A op \in {"get_storage_directory", "finish_epoch", "set_latest",
                       "was_claim_produced", "get_epoch_claim",
                       "produce_rollups_claim"} : CallsOf(op) = {}
        /\ latest = before.latest
        /\ storage = before.storage
        /\ claims = before.claims

\* handle_advance has returned in a run that had recorded a snapshot and
\* published a claim before.
AdvanceLeavesStoreAndClaimsWitness ==
    /\ ForAdvanceEvent
    /\ Len(calls) = 2
    /\ calls[2].ok
    /\ pc = "consume_input"
    /\ Len(dispatched) >= 2
    /\ latest.epoch >= 1
    /\ \E i \in 1 .. Len(claims) : claims[i].claim.events > 0

RunnerErrorKinds ==
    {"CreateSessionError", "AdvanceError", "FinishEpochError",
     "GetEpochClaimError", "FindFinishEpochInputError", "ConsumeInputError",
     "PeekClaimError", "ProduceClaimError", "GetStorageDirectoryError",
     "GetLatestSnapshotError", "SetLatestSnapshotError",
     "ParentIdMismatchError"}

\* The run is over by its own doing (not killed).
RunEnded == ~Running /\ pc # "down"

\* C17 (as claimed): a run that is over has returned an error.
RunEndsOnlyInError ==
    RunEnded => (pc = "failed" /\ err.kind \in RunnerErrorKinds)

\* The arithmetic of lines 95 and 195 overflows for the event at hand.
OverflowAtHand ==
    /\ Consumed
    /\ Len(calls) = 1
    /\ ~ParentIdMismatch(event, last_id)
    /\ \/ IsAdvance(event) /\ event.payload.inputs_sent_count = 0
       \/ IsFinish(event) /\ event.payload.epoch_index = MaxU64

RunEndsInErrorOrPanic ==
    /\ pc \in {"failed", "panicked", "down"} \/ Running
    /\ pc = "failed" =>
          /\ err.kind \in RunnerErrorKinds
          /\ \/ ~calls[Len(calls)].ok
             \/ err.kind = "ParentIdMismatchError"
    /\ pc = "panicked" => OverflowAtHand
    /\ Running => err = NoError

\* C17 (amended): start never returns Ok.  A run that is over has returned the
\* error of a failed call or of the parent-id check, or it has panicked on the
\* overflow of inputs_sent_count - 1 (an AdvanceStateInput event with count 0)
\* or of epoch_index + 1 (a FinishEpoch event with the largest u64).  A run
\* that is not over and not killed is, again and again, about to call
\* consume_input.
NoOkTerminalState ==
    /\ []RunEndsInErrorOrPanic
    /\ []<>(pc = "consume_input" \/ ~Running)

\* The run has handled the whole log and is in consume_input again.
NoOkTerminalStateWitness ==
    /\ pc = "consume_input"
    /\ Len(dispatched) = LogLen
    /\ ~consume_input_ready(log, last_id)
    /\ CompleteCalls(calls)

\* The claims this runner published (those found at the start carry no
\* events).
PublishedClaims == {i \in 1 .. Len(claims) : claims[i].claim.events > 0}

\* handle_finish is about to call, or has called, produce_rollups_claim.
ProducingClaim ==
    pc = "produce_rollups_claim" \/ CallsOf("produce_rollups_claim") # {}

\* C18 (as claimed): whenever produce_rollups_claim(e) is being called the
\* latest snapshot is the one for epoch e + 1.
ClaimOnlyUnderNextSnapshot ==
    ProducingClaim => latest.epoch = CurrentEvent.payload.epoch_index + 1

\* C18 (amended): when handle_finish is about to call, or has called,
\* produce_rollups_claim(e), finish_epoch(e) and set_latest have succeeded
\* before it for the same event, the last thing the session of this run
\* applied is the finish of e, and the latest snapshot is the one
\* get_storage_directory returned: of epoch e + 1 for e below the largest
\* u64, and of epoch 0 for the largest u64, where e + 1 wrapped.  On a log
\* with the right epoch_index every claim the runner published is for an
\* epoch below the latest snapshot's.
ClaimAfterLatest ==
    /\ ProducingClaim =>
          LET e == CurrentEvent.payload.epoch_index
          IN  /\ ForFinishEvent
              /\ Len(calls) >= 6
              /\ calls[3].op = "finish_epoch"
              /\ calls[3].arg[1] = e
              /\ calls[3].ok
              /\ calls[4].op = "set_latest"
              /\ calls[4].ok
              /\ calls[4].arg = <<latest>>
              /\ latest = calls[2].ret
              /\ latest.epoch = IF e < MaxU64 THEN e + 1 ELSE 0
              /\ latest.path # before.latest.path
              /\ session.applied # <<>>
              /\ session.applied[Len(session.applied)] = FinishApplied(e)
              /\ \A i \in CallsOf("produce_rollups_claim") :
                    /\ i = 7
                    /\ calls[i].arg[1] = e
                    /\ calls[i].ok => claims[Len(claims)].epoch = e
    /\ EpochIndexWellFormed =>
          \A i \in PublishedClaims : latest.epoch > claims[i].epoch

\* produce_rollups_claim has returned for an epoch after the first.
ClaimAfterLatestWitness ==
    /\ Len(calls) = 7
    /\ calls[7].op = "produce_rollups_claim"
    /\ calls[7].ok
    /\ calls[7].arg[1] >= 1
    /\ PublishedClaims # {}

\* The FinishEpoch events of the log in positions from + 1 .. to.
FinishesBetween(from, to) ==
    Cardinality({j \in (from + 1) .. to : IsFinish(log[j])})

\* From the resume position on, epoch_index starts at the epoch of the
\* snapshot the run resumed from and grows by one behind each FinishEpoch.
EpochsFollowSnapshot ==
    \A i \in (event_id + 1) .. Len(log) :
        log[i].payload.epoch_index =
            resumed.epoch + FinishesBetween(event_id, i - 1)

\* The finish events this run has handled in its session so far.
FinishesHandled ==
    FinishesBetween(event_id, last_id) + (IF FinishedNotClaimed THEN 1 ELSE 0)

\* C19: on a log whose epoch_index follows the snapshot from the resume
\* position, the active epoch of the session a run drives is the snapshot's
\* epoch plus the number of finish events the run has handled, and every
\* advance_state and finish_epoch call is addressed at the epoch that was
\* active when it was made.
ActiveEpochAddressing ==
    (Resumed /\ EpochsFollowSnapshot) =>
        /\ Driving => session.epoch = resumed.epoch + FinishesHandled
        /\ pc \in {"advance_state", "get_storage_directory", "finish_epoch"} =>
              event.payload.epoch_index = session.epoch
        /\ \A i \in SessionCalls :
              /\ calls[i].arg[1] =
                    resumed.epoch + FinishesBetween(event_id, CurrentEvent.id - 1)
              /\ calls[i].arg[1] =
                    IF calls[i].op = "finish_epoch" /\ calls[i].ok
                    THEN session.epoch - 1 ELSE session.epoch

\* A run that resumed from a later snapshot has handled a finish event and
\* made a call for the event that follows it.
ActiveEpochAddressingWitness ==
    /\ Resumed
    /\ resumed.epoch >= 1
    /\ EpochsFollowSnapshot
    /\ Len(dispatched) = 2
    /\ IsFinish(log[dispatched[1]])
    /\ \E i \in SessionCalls : calls[i].ok

\* This step is a call of set_latest that returned success.
SetLatestSucceeded ==
    /\ Len(calls') = Len(calls) + 1
    /\ calls'[Len(calls')].op = "set_latest"
    /\ calls'[Len(calls')].ok

\* C20: on a well-formed log no step of any run, kill or restart lowers the
\* epoch of the latest snapshot; a successful set_latest raises it by exactly
\* one, and nothing else changes the latest snapshot.
LatestEpochStepsByOne ==
    [][IsWellFormed(log) =>
          /\ latest'.epoch >= latest.epoch
          /\ SetLatestSucceeded => latest'.epoch = latest.epoch + 1
          /\ latest' # latest => SetLatestSucceeded
       ]_vars

\* On a well-formed log a run started again over a recorded snapshot has
\* recorded the next one.
LatestEpochStepsByOneWitness ==
    /\ IsWellFormed(log)
    /\ Resumed
    /\ resumed.epoch >= 1
    /\ pc = "was_claim_produced"
    /\ calls[Len(calls)].op = "set_latest"
    /\ calls[Len(calls)].ok
    /\ latest.epoch = resumed.epoch + 1

=============================================================================
